---- MODULE Spec2Model ----
(***************************************************************************)
(* A model of the glossary service of "задание 5": the REST adapter        *)
(* (rest_app/app: main.py, crud.py, database.py, config.py), the gRPC      *)
(* adapter (grpc_app: server.py, database.py) and the two sqlite files     *)
(* they are bound to.                                                      *)
(*                                                                         *)
(* A worker is one request-handling thread. It handles one request at a    *)
(* time, step by step; a step is one statement sent to sqlite (or one      *)
(* response), so that the interval in which a connection holds the         *)
(* database's write lock (from its first INSERT/UPDATE/DELETE to its       *)
(* COMMIT) is visible to the other workers.                                *)
(*                                                                         *)
(* sqlite, as the code configures it: one writer per file at a time; a     *)
(* statement that needs the write lock while another connection holds it   *)
(* waits, and fails with OperationalError "database is locked" when the    *)
(* busy timeout elapses; a read sees the committed rows only.              *)
(***************************************************************************)
EXTENDS Integers, Sequences, FiniteSets, TLC

\* ------------------------------------------------------------- bounds
Workers == {"w1", "w2"}
Terms == {"API", "REST"}
Defs == {"desc1", "desc2"}
MaxOps == 2
MaxClock == 1
MaxSoloOps == 3
MaxReuseOps == 3
MaxPairOps == 3
MaxListOps == 3
MaxBodyOps == 3

\* ---------------------------------------------------- program constants
max_retries == 3
BaseDelayMs == 50

\* rest_app/app/config.py DATABASE_URL and grpc_app/database.py DB_PATH, as paths
\* relative to the directory of "задание 5".
DATABASE_URL == "rest_app/app/db/glossary.db"
DB_PATH == "grpc_app/glossary.db"
DbPaths == {DATABASE_URL, DB_PATH}

Adapters == {"rest", "grpc"}
Ops == {"list", "get", "create", "update", "delete"}

\* The file an adapter opens: SessionLocal is bound to the engine of DATABASE_URL,
\* get_connection connects to DB_PATH.
DbOf(adapter) == IF adapter = "rest" THEN DATABASE_URL ELSE DB_PATH

\* The journal mode of a file. Every connection of the REST engine executes PRAGMA
\* journal_mode=WAL when it is made (set_sqlite_pragma); get_connection of grpc_app
\* executes no PRAGMA, nor does its init_db or the seed script, so that file is in
\* sqlite's default mode, the rollback journal.
journal_mode(p) == IF p = DATABASE_URL THEN "wal" ELSE "delete"

\* ---------------------------------------------------------------- rows
NoTerm == [id |-> 0, term |-> "", definition |-> "", created_at |-> 0, updated_at |-> 0]

Max(S) == IF S = {} THEN 0 ELSE CHOOSE x \in S : \A y \in S : y <= x

RowsByTerm(f, t) == {r \in f.rows : r.term = t}
RowsById(f, i) == {r \in f.rows : r.id = i}

\* SELECT ... WHERE term = ? / .filter(Term.term == term).first()
SelectByTerm(f, t) == IF RowsByTerm(f, t) = {} THEN NoTerm ELSE CHOOSE r \in RowsByTerm(f, t) : TRUE
\* SELECT ... WHERE id = ? / db.refresh(db_term)
SelectById(f, i) == IF RowsById(f, i) = {} THEN NoTerm ELSE CHOOSE r \in RowsById(f, i) : TRUE

\* The id sqlite gives a new row: with AUTOINCREMENT one more than the largest id the
\* table ever held, without it one more than the largest id the table holds now.
NewId(f) == IF f.autoinc THEN f.seq + 1 ELSE Max({r.id : r \in f.rows}) + 1

\* (mutant) the table has no unique constraint.
UniqueViolation_Never(f, t) == FALSE
\* The unique constraint on terms.term.
UniqueViolation(f, t) == RowsByTerm(f, t) # {}

InsertRow(f, r) == [f EXCEPT !.rows = @ \cup {r}, !.seq = IF r.id > @ THEN r.id ELSE @]
\* (mutant) the DELETE removes no row.
DeleteRows_Keep(f, ids) == f
DeleteRows(f, ids) == [f EXCEPT !.rows = {r \in @ : r.id \notin ids}]
ReplaceRows(f, new) == [f EXCEPT !.rows = {r \in @ : r.id \notin {n.id : n \in new}} \cup new]

\* The pending change of an open write transaction.
NoChange == [kind |-> "none", rows |-> {}, count |-> 0]

ApplyChange(f, ch) ==
  CASE ch.kind = "insert" -> CHOOSE g \in {InsertRow(f, r) : r \in ch.rows} : TRUE
    [] ch.kind = "update" -> ReplaceRows(f, ch.rows)
    [] ch.kind = "delete" -> DeleteRows(f, {r.id : r \in ch.rows})
    [] OTHER -> f

\* ------------------------------------------------------------ ordering
\* The sequences holding each row of S once.
Perms(S) == {s \in [1..Cardinality(S) -> S] : \A i, j \in 1..Cardinality(S) : i # j => s[i] # s[j]}

\* The place of a string of the model in sqlite's (binary) collation.
StrRank(s) ==
  CASE s = "" -> 0
    [] s = "API" -> 1
    [] s = "REST" -> 2
    [] s = "desc1" -> 3
    [] s = "desc2" -> 4
    [] OTHER -> 5

SortKey(r, sort_by) ==
  CASE sort_by = "term" -> StrRank(r.term)
    [] sort_by = "definition" -> StrRank(r.definition)
    [] sort_by = "updated_at" -> r.updated_at
    [] sort_by = "id" -> r.id
    [] OTHER -> r.created_at

\* ORDER BY <key> ASC|DESC with no further key: every order of the rows in which the
\* keys are sorted; sqlite leaves the order of rows with equal keys open.
OrderBy(S, sort_by, order) ==
  {s \in Perms(S) : \A i, j \in 1..Cardinality(S) : i < j =>
      IF order = "desc" THEN SortKey(s[i], sort_by) >= SortKey(s[j], sort_by)
                        ELSE SortKey(s[i], sort_by) <= SortKey(s[j], sort_by)}

\* --------------------------------------------------------------- state
VARIABLES
  files,      \* path -> [rows, seq, autoinc]: the committed content of each sqlite file
  lock,       \* path -> the worker whose connection holds the file's write lock, or "none"
  now,        \* the clock
  opsIssued,  \* requests issued so far
  pc,         \* worker -> its position in the handler
  req,        \* worker -> the request it handles
  resp,       \* worker -> the response (status, body) once pc = "done"
  err,        \* worker -> the exception that ended the request, or "none"
  run,        \* worker -> retry_on_lock's attempt, the invocations and the waits so far,
              \*           the writes committed and the changes pending in the session
  obj,        \* worker -> the row the handler loaded (db_term), or lastrowid (gRPC)
  pend,       \* worker -> the uncommitted change of its open write transaction
  sess        \* worker -> the state of its session (REST) or connection (gRPC)

vars == <<files, lock, now, opsIssued, pc, req, resp, err, run, obj, pend, sess>>

NoReq == [adapter |-> "rest", op |-> "list", term |-> "", definition |-> "",
          sort_by |-> "created_at", order |-> "desc"]
NoResp == [status |-> "", body |-> NoTerm, terms |-> <<>>]
NoRun == [attempt |-> 0, calls |-> 0, waits |-> <<>>, locked |-> 0, commits |-> 0, dirty |-> 0]

\* A fresh deployment: Base.metadata.create_all (rest_app's init_db) makes terms
\* without AUTOINCREMENT, grpc_app's init_db makes it with AUTOINCREMENT; both empty.
EmptyFile(p) == [rows |-> {}, seq |-> 0, autoinc |-> (p = DB_PATH)]

\* scripts/seed_database.py, which run_all.py runs before it starts the servers:
\* in either file the table is made with AUTOINCREMENT, emptied, and given one row
\* per test term, in the order of TEST_TERMS ("API" is the first, "REST" the second),
\* with its timestamps from datetime('now').
SeedDefinition == "seed"
seed_database(p) ==
  [rows |-> {[id |-> StrRank(t), term |-> t, definition |-> SeedDefinition,
              created_at |-> 0, updated_at |-> 0] : t \in Terms},
   seq |-> Cardinality(Terms), autoinc |-> TRUE]

Init ==
  /\ \/ files = [p \in DbPaths |-> EmptyFile(p)]
     \/ files = [p \in DbPaths |-> seed_database(p)]
  /\ lock = [p \in DbPaths |-> "none"]
  /\ now = 0
  /\ opsIssued = 0
  /\ pc = [w \in Workers |-> "idle"]
  /\ req = [w \in Workers |-> NoReq]
  /\ resp = [w \in Workers |-> NoResp]
  /\ err = [w \in Workers |-> "none"]
  /\ run = [w \in Workers |-> NoRun]
  /\ obj = [w \in Workers |-> NoTerm]
  /\ pend = [w \in Workers |-> NoChange]
  /\ sess = [w \in Workers |-> "none"]

\* The clock advances.
Tick ==
  /\ now < MaxClock
  /\ now' = now + 1
  /\ UNCHANGED <<files, lock, opsIssued, pc, req, resp, err, run, obj, pend, sess>>

\* A client sends a request with valid input; a free worker takes it. get_db opens
\* the REST handler's session. The locust users send GET /terms without parameters.
IssueUpTo(w, adapters, n) ==
  /\ pc[w] \in {"idle", "done"}
  /\ opsIssued < n
  /\ \E a \in adapters, o \in Ops, t \in Terms, d \in Defs :
       /\ req' = [req EXCEPT ![w] =
                    [adapter |-> a, op |-> o,
                     term |-> IF o = "list" THEN "" ELSE t,
                     definition |-> IF o \in {"create", "update"} THEN d ELSE "",
                     sort_by |-> "created_at", order |-> "desc"]]
       /\ sess' = [sess EXCEPT ![w] = IF a = "rest" THEN "open" ELSE "none"]
  /\ opsIssued' = opsIssued + 1
  /\ pc' = [pc EXCEPT ![w] = "start"]
  /\ resp' = [resp EXCEPT ![w] = NoResp]
  /\ err' = [err EXCEPT ![w] = "none"]
  /\ run' = [run EXCEPT ![w] = NoRun]
  /\ obj' = [obj EXCEPT ![w] = NoTerm]
  /\ pend' = [pend EXCEPT ![w] = NoChange]
  /\ UNCHANGED <<files, lock, now>>

Issue(w, adapters) == IssueUpTo(w, adapters, MaxOps)

\* The request ends with a response. e names the exception that ended it ("none" for
\* a handled outcome), s the state its session or connection is left in.
Respond(w, status, body, terms, e, s) ==
  /\ resp' = [resp EXCEPT ![w] = [status |-> status, body |-> body, terms |-> terms]]
  /\ err' = [err EXCEPT ![w] = e]
  /\ sess' = [sess EXCEPT ![w] = s]
  /\ pc' = [pc EXCEPT ![w] = "done"]

\* ------------------------------------------------------- REST adapter
\* database.get_db after the yield: db.rollback() when the handler raised, and
\* db.close() in either case. s is the session's state when the handler ends.
get_db(s, e) == "closed"

\* crud.get_terms: the sort column is the attribute of Term named sort_by, and
\* Term.created_at when Term has no such attribute.
TermColumns == {"id", "term", "definition", "created_at", "updated_at"}
\* An attribute of the class Term that is not a column ("metadata" is the MetaData of
\* the declarative base): getattr returns it, and desc()/asc() refuse it with
\* ArgumentError.
NonColumnAttributes == {"metadata"}
crud_get_terms(f, sort_by, order) ==
  OrderBy(f.rows, IF sort_by \in TermColumns THEN sort_by ELSE "created_at",
          IF order = "desc" THEN "desc" ELSE "asc")

\* (mutant) the lookup filters on the definition column.
crud_get_term_by_definition(f, t) ==
  IF {r \in f.rows : r.definition = t} = {} THEN NoTerm
  ELSE CHOOSE r \in {r \in f.rows : r.definition = t} : TRUE
\* crud.get_term_by_term
crud_get_term_by_term(f, t) == SelectByTerm(f, t)

\* GET /terms
main_get_terms(w) ==
  /\ pc[w] = "start" /\ req[w].adapter = "rest" /\ req[w].op = "list"
  /\ IF req[w].sort_by \in NonColumnAttributes
       THEN Respond(w, "500", NoTerm, <<>>, "ArgumentError", get_db(sess[w], "ArgumentError"))
       ELSE \E s \in crud_get_terms(files[DATABASE_URL], req[w].sort_by, req[w].order) :
              Respond(w, "200", NoTerm, s, "none", get_db(sess[w], "none"))
  /\ UNCHANGED <<files, lock, now, opsIssued, req, run, obj, pend>>

\* GET /terms/{term}
main_get_term(w) ==
  /\ pc[w] = "start" /\ req[w].adapter = "rest" /\ req[w].op = "get"
  /\ LET db_term == crud_get_term_by_term(files[DATABASE_URL], req[w].term) IN
       IF db_term = NoTerm
         THEN Respond(w, "404", NoTerm, <<>>, "none", get_db(sess[w], "none"))
         ELSE Respond(w, "200", db_term, <<>>, "none", get_db(sess[w], "none"))
  /\ UNCHANGED <<files, lock, now, opsIssued, req, run, obj, pend>>

\* What an invocation of crud.create_term, crud.update_term or crud.delete_term leaves
\* pending in a session that holds d pending changes: create_term adds a new Term
\* object; update_term and delete_term mark the one loaded object.
Invoke(r, d) == IF r.op = "create" THEN d + 1 ELSE 1

\* retry_on_lock's wrapper calls func for the first time (attempt 0).
FirstCall == [attempt |-> 0, calls |-> 1, waits |-> <<>>, locked |-> 0, commits |-> 0, dirty |-> 1]

\* schemas.TermCreate (term and definition with min_length=1) and schemas.TermUpdate
\* (definition with min_length=1): the body of a POST or PUT does not validate.
\* FastAPI then answers 422 and does not call the handler.
RequestValidationError(r) ==
  \/ r.op = "create" /\ (r.term = "" \/ r.definition = "")
  \/ r.op = "update" /\ r.definition = ""

\* POST /terms: the handler's lookup; 409 when the term exists, else crud.create_term,
\* whose db.add leaves the new object pending in the session.
main_create_term(w) ==
  /\ pc[w] = "start" /\ req[w].adapter = "rest" /\ req[w].op = "create"
  /\ LET existing_term == crud_get_term_by_term(files[DATABASE_URL], req[w].term) IN
       IF RequestValidationError(req[w])
         THEN /\ Respond(w, "422", NoTerm, <<>>, "none", get_db(sess[w], "none"))
              /\ UNCHANGED <<run, obj>>
         ELSE IF existing_term # NoTerm
         THEN /\ Respond(w, "409", NoTerm, <<>>, "none", get_db(sess[w], "none"))
              /\ UNCHANGED <<run, obj>>
         ELSE /\ pc' = [pc EXCEPT ![w] = "exec"]
              /\ run' = [run EXCEPT ![w] = FirstCall]
              /\ sess' = [sess EXCEPT ![w] = "pending"]
              /\ UNCHANGED <<resp, err, obj>>
  /\ UNCHANGED <<files, lock, now, opsIssued, req, pend>>

\* crud.update_term, lines 58-59: the loaded object takes the new definition and
\* updated_at = datetime.utcnow(), before db.commit() sends anything to sqlite.
SetAttributes(db_term, r, at) ==
  IF r.op = "update" THEN [db_term EXCEPT !.definition = r.definition, !.updated_at = at]
                     ELSE db_term

\* PUT /terms/{term} and DELETE /terms/{term}: 422 for a PUT whose body does not
\* validate; else the handler's lookup; 404 when the term is absent, else crud.update_term / crud.delete_term on the loaded db_term,
\* whose change is pending in the session.
main_lookup(w, op) ==
  /\ pc[w] = "start" /\ req[w].adapter = "rest" /\ req[w].op = op
  /\ LET db_term == crud_get_term_by_term(files[DATABASE_URL], req[w].term) IN
       IF RequestValidationError(req[w])
         THEN /\ Respond(w, "422", NoTerm, <<>>, "none", get_db(sess[w], "none"))
              /\ UNCHANGED <<run, obj>>
         ELSE IF db_term = NoTerm
         THEN /\ Respond(w, "404", NoTerm, <<>>, "none", get_db(sess[w], "none"))
              /\ UNCHANGED <<run, obj>>
         ELSE /\ pc' = [pc EXCEPT ![w] = "exec"]
              /\ run' = [run EXCEPT ![w] = FirstCall]
              /\ obj' = [obj EXCEPT ![w] = SetAttributes(db_term, req[w], now)]
              /\ sess' = [sess EXCEPT ![w] = "pending"]
              /\ UNCHANGED <<resp, err>>
  /\ UNCHANGED <<files, lock, now, opsIssued, req, pend>>

main_update_term(w) == main_lookup(w, "update")
main_delete_term(w) == main_lookup(w, "delete")

\* The row crud.create_term adds: id from sqlite; created_at and updated_at each from
\* its own call of the column default datetime.utcnow, created_at's (at) before
\* updated_at's (at2).
NewTerm(f, t, d, at, at2) ==
  [id |-> NewId(f), term |-> t, definition |-> d, created_at |-> at, updated_at |-> at2]

\* The first statement of db.commit()'s flush in crud.create_term, crud.update_term
\* and crud.delete_term, when the write lock is free. The UPDATE and the DELETE name
\* the row by the primary key of the loaded object; the UPDATE sets the two
\* attributes update_term changed. The INSERT of a term that
\* exists raises IntegrityError; the UPDATE of a row that is gone raises
\* StaleDataError; the DELETE of a row that is gone only warns. Neither error is an
\* OperationalError: it passes retry_on_lock's except clause, get_db rolls the
\* session back and the request ends as an unhandled error (500).
crud_flush(w) ==
  /\ pc[w] = "exec" /\ req[w].adapter = "rest"
  /\ lock[DATABASE_URL] = "none"
  /\ LET f == files[DATABASE_URL]
         row == SelectById(f, obj[w].id)
     IN
       CASE req[w].op = "create" /\ UniqueViolation(f, req[w].term) ->
              /\ Respond(w, "500", NoTerm, <<>>, "IntegrityError",
                         get_db("failed", "IntegrityError"))
              /\ UNCHANGED <<lock, now, obj, pend>>
         [] req[w].op = "create" /\ ~UniqueViolation(f, req[w].term) ->
              /\ \E at2 \in {now, now + 1} :
                   /\ at2 <= MaxClock
                   /\ now' = at2
                   /\ pend' = [pend EXCEPT ![w] =
                        [kind |-> "insert", count |-> 1,
                         rows |-> {NewTerm(f, req[w].term, req[w].definition, now, at2)}]]
                   /\ obj' = [obj EXCEPT ![w] =
                        NewTerm(f, req[w].term, req[w].definition, now, at2)]
              /\ lock' = [lock EXCEPT ![DATABASE_URL] = w]
              /\ sess' = [sess EXCEPT ![w] = "flushed"]
              /\ pc' = [pc EXCEPT ![w] = "commit"]
              /\ UNCHANGED <<resp, err>>
         [] req[w].op = "update" /\ row = NoTerm ->
              /\ Respond(w, "500", NoTerm, <<>>, "StaleDataError",
                         get_db("failed", "StaleDataError"))
              /\ UNCHANGED <<lock, now, obj, pend>>
         [] req[w].op = "update" /\ row # NoTerm ->
              /\ pend' = [pend EXCEPT ![w] =
                   [kind |-> "update", count |-> 1,
                    rows |-> {[row EXCEPT !.definition = obj[w].definition,
                                          !.updated_at = obj[w].updated_at]}]]
              /\ lock' = [lock EXCEPT ![DATABASE_URL] = w]
              /\ sess' = [sess EXCEPT ![w] = "flushed"]
              /\ pc' = [pc EXCEPT ![w] = "commit"]
              /\ UNCHANGED <<resp, err, now, obj>>
         [] OTHER ->
              /\ pend' = [pend EXCEPT ![w] =
                   [kind |-> "delete", count |-> Cardinality(RowsById(f, obj[w].id)),
                    rows |-> RowsById(f, obj[w].id)]]
              /\ lock' = [lock EXCEPT ![DATABASE_URL] = w]
              /\ sess' = [sess EXCEPT ![w] = "flushed"]
              /\ pc' = [pc EXCEPT ![w] = "commit"]
              /\ UNCHANGED <<resp, err, now, obj>>
  /\ UNCHANGED <<files, opsIssued, req, run>>

\* (mutant) the last attempt is retried too.
ShouldRetry_OneMore(message, attempt) == message = "database is locked" /\ attempt < max_retries
\* (mutant) every OperationalError is retried.
ShouldRetry_AnyMessage(message, attempt) == attempt < max_retries - 1
\* retry_on_lock, line 26: the error is retried.
ShouldRetry(message, attempt) == message = "database is locked" /\ attempt < max_retries - 1
\* (mutant) the wait halves with each attempt.
BackoffDelay_Halving(attempt) == BaseDelayMs \div (2 ^ attempt)
\* retry_on_lock, line 27: the wait in milliseconds, 0.05 s * 2 ** attempt.
BackoffDelay(attempt) == BaseDelayMs * (2 ^ attempt)

\* (mutant) the except clause does not roll the session back.
Rollback_Keep(d) == d
\* db.rollback(): the session's pending changes are discarded.
Rollback(d) == 0

\* retry_on_lock's except clause for an OperationalError raised by func: db.rollback();
\* a retried error waits and the loop calls func again (after the loop's last
\* iteration, line 30 calls it outside the try), which sets the object's attributes
\* anew; any other is re-raised. An
\* OperationalError raised by line 30's call passes the wrapper as it is.
retry_on_lock(w, message) ==
  /\ pend' = [pend EXCEPT ![w] = NoChange]
  /\ IF run[w].attempt < max_retries /\ ShouldRetry(message, run[w].attempt)
       THEN /\ run' = [run EXCEPT ![w] =
                 [attempt |-> @.attempt + 1, calls |-> @.calls + 1,
                  waits |-> Append(@.waits, BackoffDelay(@.attempt)),
                  locked |-> IF message = "database is locked" THEN @.locked + 1
                                                               ELSE @.locked,
                  commits |-> @.commits,
                  dirty |-> Invoke(req[w], Rollback(@.dirty))]]
            /\ obj' = [obj EXCEPT ![w] = SetAttributes(@, req[w], now)]
            /\ sess' = [sess EXCEPT ![w] = "pending"]
            /\ pc' = [pc EXCEPT ![w] = "exec"]
            /\ UNCHANGED <<resp, err>>
       ELSE /\ run' = [run EXCEPT ![w].locked =
                                   IF message = "database is locked" THEN @ + 1 ELSE @,
                                 ![w].dirty = Rollback(@)]
            /\ UNCHANGED obj
            /\ Respond(w, "500", NoTerm, <<>>, message,
                       get_db(IF run[w].attempt < max_retries THEN "open" ELSE "failed",
                              message))

\* The flush's statement waits for the write lock another connection holds until the
\* busy timeout elapses: OperationalError "database is locked" inside func.
crud_locked(w) ==
  /\ pc[w] = "exec" /\ req[w].adapter = "rest"
  /\ lock[DATABASE_URL] \notin {"none", w}
  /\ retry_on_lock(w, "database is locked")
  /\ UNCHANGED <<files, lock, now, opsIssued, req>>

\* sqlite fails the flush's statement for another reason (the disk, the file's
\* permissions): an OperationalError with another message.
crud_fault(w) ==
  /\ pc[w] = "exec" /\ req[w].adapter = "rest"
  /\ retry_on_lock(w, "disk I/O error")
  /\ UNCHANGED <<files, lock, now, opsIssued, req>>

\* The writes a COMMIT makes: one when the transaction changed a row, none when its
\* statement matched no row.
Writes(ch) == IF ch.count > 0 THEN 1 ELSE 0

\* The COMMIT of db.commit(): the change becomes visible, the write lock is free, the
\* session has nothing pending. crud.delete_term returns and the handler answers 200.
crud_commit(w) ==
  /\ pc[w] = "commit" /\ req[w].adapter = "rest"
  /\ files' = [files EXCEPT ![DATABASE_URL] = ApplyChange(@, pend[w])]
  /\ lock' = [lock EXCEPT ![DATABASE_URL] = "none"]
  /\ pend' = [pend EXCEPT ![w] = NoChange]
  /\ run' = [run EXCEPT ![w].commits = @ + Writes(pend[w]), ![w].dirty = 0]
  /\ IF req[w].op = "delete"
       THEN Respond(w, "200", NoTerm, <<>>, "none", get_db("open", "none"))
       ELSE /\ pc' = [pc EXCEPT ![w] = "refresh"]
            /\ sess' = [sess EXCEPT ![w] = "open"]
            /\ UNCHANGED <<resp, err>>
  /\ UNCHANGED <<now, opsIssued, req, obj>>

\* sqlite answers the SELECT of db.refresh(db_term) with busy (another connection
\* holds the file for a checkpoint or a recovery) until the busy timeout elapses:
\* OperationalError "database is locked" inside func, after its db.commit().
crud_refresh_locked(w) ==
  /\ pc[w] = "refresh" /\ req[w].adapter = "rest"
  /\ retry_on_lock(w, "database is locked")
  /\ UNCHANGED <<files, lock, now, opsIssued, req>>

\* db.refresh(db_term): the row is read again by its id; InvalidRequestError when no
\* row has it any more. Then the handler answers 201 (create) or 200 (update).
crud_refresh(w) ==
  /\ pc[w] = "refresh" /\ req[w].adapter = "rest"
  /\ LET db_term == SelectById(files[DATABASE_URL], obj[w].id) IN
       IF db_term = NoTerm
         THEN Respond(w, "500", NoTerm, <<>>, "InvalidRequestError",
                      get_db(sess[w], "InvalidRequestError"))
         ELSE Respond(w, IF req[w].op = "create" THEN "201" ELSE "200", db_term, <<>>,
                      "none", get_db(sess[w], "none"))
  /\ UNCHANGED <<files, lock, now, opsIssued, req, run, obj, pend>>

\* ------------------------------------------------------- gRPC adapter
\* database.get_all_terms: SELECT * FROM terms ORDER BY created_at DESC
database_get_all_terms(f) == OrderBy(f.rows, "created_at", "desc")
\* database.get_term_by_name
database_get_term_by_name(f, t) == SelectByTerm(f, t)
\* database.get_term_by_id
database_get_term_by_id(f, i) == SelectById(f, i)

\* With a rollback journal, a connection that commits holds the file's exclusive lock
\* while it writes its pages, and no other connection can read meanwhile; in WAL mode
\* a reader is never shut out by a writer.
ReadBlocked(w, p) ==
  /\ journal_mode(p) # "wal"
  /\ \E v \in Workers \ {w} : pc[v] = "exclusive" /\ DbOf(req[v].adapter) = p

\* GlossaryServicer.GetTerms
GetTerms(w) ==
  /\ pc[w] = "start" /\ req[w].adapter = "grpc" /\ req[w].op = "list"
  /\ ~ReadBlocked(w, DB_PATH)
  /\ \E s \in database_get_all_terms(files[DB_PATH]) :
       Respond(w, "OK", NoTerm, s, "none", "closed")
  /\ UNCHANGED <<files, lock, now, opsIssued, req, run, obj, pend>>

\* GlossaryServicer.GetTerm
GetTerm(w) ==
  /\ pc[w] = "start" /\ req[w].adapter = "grpc" /\ req[w].op = "get"
  /\ req[w].term = "" \/ ~ReadBlocked(w, DB_PATH)
  /\ LET result == database_get_term_by_name(files[DB_PATH], req[w].term) IN
       IF req[w].term = ""
         THEN Respond(w, "INVALID_ARGUMENT", NoTerm, <<>>, "none", "none")
         ELSE IF result = NoTerm
           THEN Respond(w, "NOT_FOUND", NoTerm, <<>>, "none", "closed")
           ELSE Respond(w, "OK", result, <<>>, "none", "closed")
  /\ UNCHANGED <<files, lock, now, opsIssued, req, run, obj, pend>>

\* The argument checks of CreateTerm, UpdateTerm and DeleteTerm.
InvalidArgument(r) ==
  \/ r.term = ""
  \/ r.op \in {"create", "update"} /\ r.definition = ""

\* The store function is called once, with no wrapper around it.
DirectCall == [attempt |-> 0, calls |-> 1, waits |-> <<>>, locked |-> 0, commits |-> 0, dirty |-> 0]

\* CreateTerm, UpdateTerm, DeleteTerm up to the statement of database.create_term,
\* database.update_term, database.delete_term, when the write lock is free. The
\* INSERT of a term that exists raises IntegrityError, which create_term answers by
\* closing the connection and returning None, and CreateTerm by ALREADY_EXISTS. The
\* timestamps are sqlite's datetime('now').
database_execute(w) ==
  /\ pc[w] = "start" /\ req[w].adapter = "grpc" /\ req[w].op \in {"create", "update", "delete"}
  /\ InvalidArgument(req[w]) \/ lock[DB_PATH] = "none"
  /\ LET f == files[DB_PATH]
         new == [id |-> NewId(f), term |-> req[w].term, definition |-> req[w].definition,
                 created_at |-> now, updated_at |-> now]
         hit == RowsByTerm(f, req[w].term)
     IN
       IF InvalidArgument(req[w])
         THEN /\ Respond(w, "INVALID_ARGUMENT", NoTerm, <<>>, "none", "none")
              /\ UNCHANGED <<lock, run, obj, pend>>
         ELSE IF req[w].op = "create" /\ UniqueViolation(f, req[w].term)
           THEN /\ Respond(w, "ALREADY_EXISTS", NoTerm, <<>>, "none", "closed")
                /\ run' = [run EXCEPT ![w] = DirectCall]
                /\ UNCHANGED <<lock, obj, pend>>
           ELSE /\ pend' = [pend EXCEPT ![w] =
                     CASE req[w].op = "create" -> [kind |-> "insert", count |-> 1, rows |-> {new}]
                       [] req[w].op = "update" ->
                            [kind |-> "update", count |-> Cardinality(hit),
                             rows |-> {[r EXCEPT !.definition = req[w].definition,
                                                 !.updated_at = now] : r \in hit}]
                       [] OTHER -> [kind |-> "delete", count |-> Cardinality(hit), rows |-> hit]]
                /\ obj' = [obj EXCEPT ![w] = IF req[w].op = "create" THEN new ELSE NoTerm]
                /\ lock' = [lock EXCEPT ![DB_PATH] = w]
                /\ run' = [run EXCEPT ![w] = DirectCall]
                /\ sess' = [sess EXCEPT ![w] = "flushed"]
                /\ pc' = [pc EXCEPT ![w] = "commit"]
                /\ UNCHANGED <<resp, err>>
  /\ UNCHANGED <<files, now, opsIssued, req>>

\* The statement waits for the write lock another connection holds until the busy
\* timeout elapses: sqlite3.OperationalError "database is locked". No store function
\* and no servicer method catches it: the connection stays open and the RPC ends
\* with status UNKNOWN.
database_locked(w) ==
  /\ pc[w] = "start" /\ req[w].adapter = "grpc" /\ req[w].op \in {"create", "update", "delete"}
  /\ ~InvalidArgument(req[w])
  /\ lock[DB_PATH] \notin {"none", w}
  /\ run' = [run EXCEPT ![w] = [DirectCall EXCEPT !.locked = 1]]
  /\ Respond(w, "UNKNOWN", NoTerm, <<>>, "database is locked", "open")
  /\ UNCHANGED <<files, lock, now, opsIssued, req, obj, pend>>

\* The SELECT of get_all_terms or get_term_by_name waits for the exclusive lock of a
\* committing connection until the busy timeout (sqlite3.connect's default, 5 s)
\* elapses: sqlite3.OperationalError "database is locked", which nothing catches; the
\* connection stays open and the RPC ends with status UNKNOWN.
database_read_locked(w) ==
  /\ pc[w] = "start" /\ req[w].adapter = "grpc" /\ req[w].op \in {"list", "get"}
  /\ req[w].term # "" \/ req[w].op = "list"
  /\ ReadBlocked(w, DB_PATH)
  /\ Respond(w, "UNKNOWN", NoTerm, <<>>, "database is locked", "open")
  /\ UNCHANGED <<files, lock, now, opsIssued, req, run, obj, pend>>

\* conn.commit() with a rollback journal, first part: the connection takes the
\* file's exclusive lock to write its pages.
database_exclusive(w) ==
  /\ pc[w] = "commit" /\ req[w].adapter = "grpc"
  /\ journal_mode(DB_PATH) # "wal"
  /\ pc' = [pc EXCEPT ![w] = "exclusive"]
  /\ UNCHANGED <<files, lock, now, opsIssued, req, resp, err, run, obj, pend, sess>>

\* conn.commit() and conn.close(): the change becomes visible, the write lock is
\* free. delete_term returns changes > 0; update_term returns None when changes == 0.
database_commit(w) ==
  /\ pc[w] \in {"commit", "exclusive"} /\ req[w].adapter = "grpc"
  /\ files' = [files EXCEPT ![DB_PATH] = ApplyChange(@, pend[w])]
  /\ lock' = [lock EXCEPT ![DB_PATH] = "none"]
  /\ pend' = [pend EXCEPT ![w] = NoChange]
  /\ run' = [run EXCEPT ![w].commits = @ + Writes(pend[w])]
  /\ CASE req[w].op = "delete" ->
            Respond(w, IF pend[w].count > 0 THEN "OK" ELSE "NOT_FOUND", NoTerm, <<>>,
                    "none", "closed")
       [] req[w].op = "update" /\ pend[w].count = 0 ->
            Respond(w, "NOT_FOUND", NoTerm, <<>>, "none", "closed")
       [] OTHER ->
            /\ pc' = [pc EXCEPT ![w] = "read"]
            /\ sess' = [sess EXCEPT ![w] = "closed"]
            /\ UNCHANGED <<resp, err>>
  /\ UNCHANGED <<now, opsIssued, req, obj>>

\* The row is read back on a second connection: create_term by get_term_by_id(last_id),
\* update_term by get_term_by_name(term_name). A missing row is None, which CreateTerm
\* answers with ALREADY_EXISTS and UpdateTerm with NOT_FOUND.
database_read_back(w) ==
  /\ pc[w] = "read" /\ req[w].adapter = "grpc"
  /\ ~ReadBlocked(w, DB_PATH)
  /\ LET result == IF req[w].op = "create"
                     THEN database_get_term_by_id(files[DB_PATH], obj[w].id)
                     ELSE database_get_term_by_name(files[DB_PATH], req[w].term)
     IN
       IF result = NoTerm
         THEN Respond(w, IF req[w].op = "create" THEN "ALREADY_EXISTS" ELSE "NOT_FOUND",
                      NoTerm, <<>>, "none", "closed")
         ELSE Respond(w, "OK", result, <<>>, "none", "closed")
  /\ UNCHANGED <<files, lock, now, opsIssued, req, run, obj, pend>>

\* ------------------------------------------------------- specification
RestStep(w) ==
  \/ main_get_terms(w)
  \/ main_get_term(w)
  \/ main_create_term(w)
  \/ main_update_term(w)
  \/ main_delete_term(w)
  \/ crud_flush(w)
  \/ crud_locked(w)
  \/ crud_commit(w)
  \/ crud_refresh(w)

GrpcStep(w) ==
  \/ GetTerms(w)
  \/ GetTerm(w)
  \/ database_execute(w)
  \/ database_locked(w)
  \/ database_commit(w)
  \/ database_read_back(w)

\* Both servers run, each client talks to either.
Next ==
  \/ Tick
  \/ \E w \in Workers : Issue(w, Adapters) \/ RestStep(w) \/ GrpcStep(w)

Spec == Init /\ [][Next]_vars

\* The REST server alone.
NextRest ==
  \/ Tick
  \/ \E w \in Workers : Issue(w, {"rest"}) \/ RestStep(w)

SpecRest == Init /\ [][NextRest]_vars

\* The gRPC server alone.
NextGrpc ==
  \/ Tick
  \/ \E w \in Workers : Issue(w, {"grpc"}) \/ GrpcStep(w)

SpecGrpc == Init /\ [][NextGrpc]_vars


\* The REST server alone, with storage faults.
NextFault ==
  \/ NextRest
  \/ \E w \in Workers : crud_fault(w)

SpecFault == Init /\ [][NextFault]_vars

\* The REST server alone, with reads that meet a busy file after a commit.
NextRefresh ==
  \/ NextRest
  \/ \E w \in Workers : crud_refresh_locked(w)

SpecRefresh == Init /\ [][NextRefresh]_vars

\* One server under load at a time, as the load tests run: the first request picks
\* the adapter and every later request goes to the same one.
SameAdapter == {a \in Adapters : \A v \in Workers : pc[v] # "idle" => req[v].adapter = a}

NextOne ==
  \/ Tick
  \/ \E w \in Workers : Issue(w, SameAdapter) \/ RestStep(w) \/ GrpcStep(w)

SpecOne == Init /\ [][NextOne]_vars

\* ------------------------------------------------ the race of creates
\* Every worker holds a create request for the same term, sent through the same
\* adapter while the store holds no row: the requests are in flight together.
InitRace ==
  /\ files = [p \in DbPaths |-> EmptyFile(p)]
  /\ lock = [p \in DbPaths |-> "none"]
  /\ now = 0
  /\ opsIssued = Cardinality(Workers)
  /\ pc = [w \in Workers |-> "start"]
  /\ \E a \in Adapters, t \in Terms :
       /\ req \in [Workers -> {[adapter |-> a, op |-> "create", term |-> t, definition |-> d,
                               sort_by |-> "created_at", order |-> "desc"] : d \in Defs}]
       /\ sess = [w \in Workers |-> IF a = "rest" THEN "open" ELSE "none"]
  /\ resp = [w \in Workers |-> NoResp]
  /\ err = [w \in Workers |-> "none"]
  /\ run = [w \in Workers |-> NoRun]
  /\ obj = [w \in Workers |-> NoTerm]
  /\ pend = [w \in Workers |-> NoChange]

\* No wait for the write lock outlasts the busy timeout: a writer that finds the lock
\* taken goes on when it is free again.
NextRace ==
  \/ Tick
  \/ \E w \in Workers :
       \/ main_create_term(w)
       \/ crud_flush(w)
       \/ crud_commit(w)
       \/ crud_refresh(w)
       \/ database_execute(w)
       \/ database_commit(w)
       \/ database_read_back(w)

SpecRace == InitRace /\ [][NextRace]_vars

\* ------------------------------------------------ the race of deletes
\* Every worker holds a delete request for the same term, sent through the same
\* adapter while the store holds the term: the requests are in flight together. The
\* store is the seeded one, or one the server made itself and a create has filled.
InitDeleteRace ==
  /\ \/ files = [p \in DbPaths |-> seed_database(p)]
     \/ \E t \in Terms, d \in Defs :
          files = [p \in DbPaths |-> InsertRow(EmptyFile(p), NewTerm(EmptyFile(p), t, d, 0, 0))]
  /\ lock = [p \in DbPaths |-> "none"]
  /\ now = 0
  /\ opsIssued = Cardinality(Workers)
  /\ pc = [w \in Workers |-> "start"]
  /\ \E a \in Adapters, t \in Terms :
       /\ RowsByTerm(files[DbOf(a)], t) # {}
       /\ req = [w \in Workers |->
                   [adapter |-> a, op |-> "delete", term |-> t, definition |-> "",
                    sort_by |-> "created_at", order |-> "desc"]]
       /\ sess = [w \in Workers |-> IF a = "rest" THEN "open" ELSE "none"]
  /\ resp = [w \in Workers |-> NoResp]
  /\ err = [w \in Workers |-> "none"]
  /\ run = [w \in Workers |-> NoRun]
  /\ obj = [w \in Workers |-> NoTerm]
  /\ pend = [w \in Workers |-> NoChange]

\* No wait for the write lock outlasts the busy timeout.
NextDeleteRace ==
  \/ Tick
  \/ \E w \in Workers :
       \/ main_delete_term(w)
       \/ crud_flush(w)
       \/ crud_commit(w)
       \/ database_execute(w)
       \/ database_commit(w)

SpecDeleteRace == InitDeleteRace /\ [][NextDeleteRace]_vars

\* ------------------------------------- a store the REST server made itself
\* The REST server runs on a file its own init_db created (no seed script, so the
\* table has no AUTOINCREMENT), and one earlier create has committed on it.
InitReuse ==
  /\ \E t \in Terms, d \in Defs :
       files = [p \in DbPaths |->
                  IF p = DATABASE_URL
                    THEN InsertRow(EmptyFile(p), NewTerm(EmptyFile(p), t, d, 0, 0))
                    ELSE EmptyFile(p)]
  /\ lock = [p \in DbPaths |-> "none"]
  /\ now = 0
  /\ opsIssued = 0
  /\ pc = [w \in Workers |-> "idle"]
  /\ req = [w \in Workers |-> NoReq]
  /\ resp = [w \in Workers |-> NoResp]
  /\ err = [w \in Workers |-> "none"]
  /\ run = [w \in Workers |-> NoRun]
  /\ obj = [w \in Workers |-> NoTerm]
  /\ pend = [w \in Workers |-> NoChange]
  /\ sess = [w \in Workers |-> "none"]

NextReuse ==
  \/ Tick
  \/ \E w \in Workers : IssueUpTo(w, {"rest"}, MaxReuseOps) \/ RestStep(w)

SpecReuse == InitReuse /\ [][NextReuse]_vars

\* ------------------------------------------------------ a single client
Solo == "w1"
\* One client and no other: its requests, to either server, one after the other.
\* No statement finds the write lock taken.
SoloStep(w) ==
  \/ main_get_terms(w)
  \/ main_get_term(w)
  \/ main_create_term(w)
  \/ main_update_term(w)
  \/ main_delete_term(w)
  \/ crud_flush(w)
  \/ crud_commit(w)
  \/ crud_refresh(w)
  \/ GetTerms(w)
  \/ GetTerm(w)
  \/ database_execute(w)
  \/ database_commit(w)
  \/ database_read_back(w)

NextSolo ==
  \/ Tick
  \/ IssueUpTo("w1", Adapters, MaxSoloOps)
  \/ SoloStep("w1")

SpecSolo == Init /\ [][NextSolo]_vars

\* ------------------------------------------- one sequence, both adapters
\* The same sequence of create, get, update and delete requests is sent once to the
\* REST server and once to the gRPC server, each by a client of its own and with no
\* other client; the two stores start with the same content (Init). A request is
\* sent when both clients have the answer to the previous one.
RestClient == "w1"
GrpcClient == "w2"

IssuePair ==
  /\ \A w \in {RestClient, GrpcClient} : pc[w] \in {"idle", "done"}
  /\ opsIssued < MaxPairOps
  /\ \E o \in Ops \ {"list"}, t \in Terms, d \in Defs :
       req' = [w \in Workers |->
                 [adapter |-> IF w = RestClient THEN "rest" ELSE "grpc", op |-> o, term |-> t,
                  definition |-> IF o \in {"create", "update"} THEN d ELSE "",
                  sort_by |-> "created_at", order |-> "desc"]]
  /\ sess' = [w \in Workers |-> IF w = RestClient THEN "open" ELSE "none"]
  /\ opsIssued' = opsIssued + 1
  /\ pc' = [w \in Workers |-> "start"]
  /\ resp' = [w \in Workers |-> NoResp]
  /\ err' = [w \in Workers |-> "none"]
  /\ run' = [w \in Workers |-> NoRun]
  /\ obj' = [w \in Workers |-> NoTerm]
  /\ pend' = [w \in Workers |-> NoChange]
  /\ UNCHANGED <<files, lock, now>>

NextPair ==
  \/ Tick
  \/ IssuePair
  \/ main_get_term(RestClient)
  \/ main_create_term(RestClient)
  \/ main_update_term(RestClient)
  \/ main_delete_term(RestClient)
  \/ crud_flush(RestClient)
  \/ crud_commit(RestClient)
  \/ crud_refresh(RestClient)
  \/ GetTerm(GrpcClient)
  \/ database_execute(GrpcClient)
  \/ database_commit(GrpcClient)
  \/ database_read_back(GrpcClient)

SpecPair == Init /\ [][NextPair]_vars

\* ------------------------------------------------- the commit's two parts
\* Both servers run; a commit on a file with a rollback journal is seen in its two
\* parts, so that the other requests meet the exclusive lock.
NextJournal ==
  \/ Next
  \/ \E w \in Workers : database_exclusive(w) \/ database_read_locked(w)

SpecJournal == Init /\ [][NextJournal]_vars

\* ------------------------------------------------------ sorted listings
\* GET /terms with the query parameters sort_by and order, which are free strings
\* (main.get_terms, Query("created_at") and Query("desc")): the names of the columns,
\* the name of another attribute of Term, and a name Term does not have. GetTerms has
\* no parameters.
SortBys == {"created_at", "term", "updated_at", "id", "definition", "metadata", "rank"}
Orders == {"desc", "asc", "down"}

IssueSorted(w, ops, sortBys, orders, n) ==
  /\ pc[w] \in {"idle", "done"}
  /\ opsIssued < n
  /\ \E a \in Adapters, o \in ops, t \in Terms, d \in Defs, sb \in sortBys, ord \in orders :
       /\ (o # "list" \/ a = "grpc") => (sb = "created_at" /\ ord = "desc")
       /\ req' = [req EXCEPT ![w] =
                    [adapter |-> a, op |-> o,
                     term |-> IF o = "list" THEN "" ELSE t,
                     definition |-> IF o \in {"create", "update"} THEN d ELSE "",
                     sort_by |-> sb, order |-> ord]]
       /\ sess' = [sess EXCEPT ![w] = IF a = "rest" THEN "open" ELSE "none"]
  /\ opsIssued' = opsIssued + 1
  /\ pc' = [pc EXCEPT ![w] = "start"]
  /\ resp' = [resp EXCEPT ![w] = NoResp]
  /\ err' = [err EXCEPT ![w] = "none"]
  /\ run' = [run EXCEPT ![w] = NoRun]
  /\ obj' = [obj EXCEPT ![w] = NoTerm]
  /\ pend' = [pend EXCEPT ![w] = NoChange]
  /\ UNCHANGED <<files, lock, now>>

\* One client sends requests of every kind, a second one only lists, without
\* parameters (as the load tests' users do). No statement finds the write lock taken.
Writer == "w1"
Reader == "w2"

NextList ==
  \/ Tick
  \/ IssueSorted(Writer, Ops, SortBys, Orders, MaxListOps)
  \/ IssueSorted(Reader, {"list"}, {"created_at"}, {"desc"}, MaxListOps)
  \/ \E w \in Workers : SoloStep(w)

SpecList == Init /\ [][NextList]_vars

\* ------------------------------------------------- requests with empty strings
\* A client sends requests whose term and definition may be empty. A REST request
\* names the term of a get, update or delete in its path (/terms/{term}), which an
\* empty term does not match; an RPC carries the term in its message.
IssueUnchecked(w, n) ==
  /\ pc[w] \in {"idle", "done"}
  /\ opsIssued < n
  /\ \E a \in Adapters, o \in Ops \ {"list"}, t \in Terms \cup {""}, d \in Defs \cup {""} :
       /\ (a = "rest" /\ o # "create") => t # ""
       /\ (o \notin {"create", "update"}) => d = ""
       /\ req' = [req EXCEPT ![w] =
                    [adapter |-> a, op |-> o, term |-> t, definition |-> d,
                     sort_by |-> "created_at", order |-> "desc"]]
       /\ sess' = [sess EXCEPT ![w] = IF a = "rest" THEN "open" ELSE "none"]
  /\ opsIssued' = opsIssued + 1
  /\ pc' = [pc EXCEPT ![w] = "start"]
  /\ resp' = [resp EXCEPT ![w] = NoResp]
  /\ err' = [err EXCEPT ![w] = "none"]
  /\ run' = [run EXCEPT ![w] = NoRun]
  /\ obj' = [obj EXCEPT ![w] = NoTerm]
  /\ pend' = [pend EXCEPT ![w] = NoChange]
  /\ UNCHANGED <<files, lock, now>>

NextBody ==
  \/ Tick
  \/ IssueUnchecked(Solo, MaxBodyOps)
  \/ main_get_term(Solo)
  \/ main_create_term(Solo)
  \/ main_update_term(Solo)
  \/ main_delete_term(Solo)
  \/ crud_flush(Solo)
  \/ crud_commit(Solo)
  \/ crud_refresh(Solo)
  \/ GetTerm(Solo)
  \/ database_execute(Solo)
  \/ database_commit(Solo)
  \/ database_read_back(Solo)

SpecBody == Init /\ [][NextBody]_vars

\* ------------------------------------------------------- the scenario
\* One REST client and no other: the requests of the scenario, one after the other.
Client == "w1"
ScenarioRequest(o, t, d) ==
  [adapter |-> "rest", op |-> o, term |-> t, definition |-> d,
   sort_by |-> "created_at", order |-> "desc"]
Scenario ==
  << ScenarioRequest("create", "API", "desc1"),
     ScenarioRequest("create", "API", "desc2"),
     ScenarioRequest("get", "API", ""),
     ScenarioRequest("update", "API", "desc2"),
     ScenarioRequest("delete", "API", ""),
     ScenarioRequest("get", "API", "") >>

\* A store without "API": a fresh one, or a seeded one from which "API" was deleted.
InitScenario ==
  /\ \/ files = [p \in DbPaths |-> EmptyFile(p)]
     \/ files = [p \in DbPaths |->
                   DeleteRows(seed_database(p), {r.id : r \in RowsByTerm(seed_database(p), "API")})]
  /\ lock = [p \in DbPaths |-> "none"]
  /\ now \in 0..MaxClock
  /\ opsIssued = 0
  /\ pc = [w \in Workers |-> "idle"]
  /\ req = [w \in Workers |-> NoReq]
  /\ resp = [w \in Workers |-> NoResp]
  /\ err = [w \in Workers |-> "none"]
  /\ run = [w \in Workers |-> NoRun]
  /\ obj = [w \in Workers |-> NoTerm]
  /\ pend = [w \in Workers |-> NoChange]
  /\ sess = [w \in Workers |-> "none"]

IssueScenario(w) ==
  /\ pc[w] \in {"idle", "done"}
  /\ opsIssued < Len(Scenario)
  /\ req' = [req EXCEPT ![w] = Scenario[opsIssued + 1]]
  /\ sess' = [sess EXCEPT ![w] = "open"]
  /\ opsIssued' = opsIssued + 1
  /\ pc' = [pc EXCEPT ![w] = "start"]
  /\ resp' = [resp EXCEPT ![w] = NoResp]
  /\ err' = [err EXCEPT ![w] = "none"]
  /\ run' = [run EXCEPT ![w] = NoRun]
  /\ obj' = [obj EXCEPT ![w] = NoTerm]
  /\ pend' = [pend EXCEPT ![w] = NoChange]
  /\ UNCHANGED <<files, lock, now>>

NextScenario ==
  \/ Tick
  \/ IssueScenario(Client)
  \/ main_get_term(Client)
  \/ main_create_term(Client)
  \/ main_update_term(Client)
  \/ main_delete_term(Client)
  \/ crud_flush(Client)
  \/ crud_commit(Client)
  \/ crud_refresh(Client)

SpecScenario == InitScenario /\ [][NextScenario]_vars


\* ============================================================== claims
Done(w) == pc[w] = "done"
Mutating(w) == req[w].op \in {"create", "update", "delete"}
CreateSucceeded(w) == resp[w].status \in {"201", "OK"} /\ resp[w].body.term = req[w].term
CreateConflicted(w) == resp[w].status \in {"409", "ALREADY_EXISTS"}

\* C1 (as claimed; refuted under SpecRace): when concurrent create requests for the
\* same absent term have all ended, exactly one of them succeeded (201 / OK with the
\* new Term) and every other one got the conflict outcome (409 / ALREADY_EXISTS).
C1_ExactlyOneCreateSucceeds ==
  (\A w \in Workers : Done(w)) =>
     /\ Cardinality({w \in Workers : CreateSucceeded(w)}) = 1
     /\ \A w \in Workers : CreateSucceeded(w) \/ CreateConflicted(w)

\* C2 (as claimed; refuted under Spec): a get through one adapter answers with what
\* the other adapter's store holds for the term, that is, with the result of every
\* create, update and delete committed through the other adapter.
OtherAdapter(a) == IF a = "rest" THEN "grpc" ELSE "rest"
Observes(body, f, t) ==
  /\ (body = NoTerm) = (RowsByTerm(f, t) = {})
  /\ body # NoTerm => \E r \in RowsByTerm(f, t) : r.definition = body.definition
C2_GetObservesOtherAdapter ==
  [][\A w \in Workers :
       (pc[w] = "start" /\ req[w].op = "get" /\ pc'[w] = "done")
         => Observes(resp'[w].body, files[DbOf(OtherAdapter(req[w].adapter))], req[w].term)]_vars

\* C3 (SpecScenario): the REST scenario create, create, get, update, delete, get on
\* "API" answers 201, 409, 200, 200, 200, 404; the first get returns definition
\* "desc1" and the update returns definition "desc2".
ScenarioStatus == <<"201", "409", "200", "200", "200", "404">>
C3_Scenario ==
  (Done(Client) /\ opsIssued \in 1..Len(Scenario)) =>
     /\ resp[Client].status = ScenarioStatus[opsIssued]
     /\ opsIssued = 1 => resp[Client].body.term = "API" /\ resp[Client].body.definition = "desc1"
     /\ opsIssued = 3 => resp[Client].body.term = "API" /\ resp[Client].body.definition = "desc1"
     /\ opsIssued = 4 => resp[Client].body.term = "API" /\ resp[Client].body.definition = "desc2"
     /\ opsIssued \in {5, 6} => RowsByTerm(files[DATABASE_URL], "API") = {}
C3_ScenarioEnds ==
  /\ Done(Client) /\ opsIssued = Len(Scenario)
  /\ resp[Client].status = "404"

\* C4 (as claimed; refuted under SpecRest): every REST response has a status the
\* load test accepts for its request.
AcceptedRest(op) ==
  CASE op = "list" -> {"200"}
    [] op = "create" -> {"201", "409"}
    [] OTHER -> {"200", "404"}
C4_RestStatusAccepted ==
  \A w \in Workers :
     (Done(w) /\ req[w].adapter = "rest") => resp[w].status \in AcceptedRest(req[w].op)

\* C5 (as claimed; refuted under SpecGrpc): every RPC ends with OK, NOT_FOUND or
\* ALREADY_EXISTS and with no exception leaving the servicer.
C5_GrpcStatusAccepted ==
  \A w \in Workers :
     (Done(w) /\ req[w].adapter = "grpc") =>
        /\ resp[w].status \in {"OK", "NOT_FOUND", "ALREADY_EXISTS"}
        /\ err[w] = "none"


RestWrite(w) == req[w].adapter = "rest" /\ Mutating(w)

\* C6 (SpecRest): an update whose first two attempts failed with lock contention and
\* whose third attempt returned is answered 200 with the row read back (no error
\* reaches the caller), after three invocations and two waits, the second not
\* shorter than the first.
C6_ContentionRecovery ==
  \A w \in Workers :
     (Done(w) /\ RestWrite(w) /\ req[w].op = "update" /\ run[w].locked = 2 /\ err[w] = "none") =>
        /\ resp[w].status = "200"
        /\ resp[w].body # NoTerm /\ resp[w].body.id = obj[w].id
        /\ run[w].calls = 3
        /\ Len(run[w].waits) = 2
        /\ run[w].waits[2] >= run[w].waits[1]
C6_RecoveredUpdate ==
  \E w \in Workers :
     /\ Done(w) /\ RestWrite(w) /\ req[w].op = "update" /\ run[w].locked = 2
     /\ resp[w].status = "200" /\ resp[w].body.definition = req[w].definition

FailedOtherwise(w) ==
  Done(w) /\ RestWrite(w) /\ err[w] \notin {"none", "database is locked"}
RolledBack(w) ==
  sess[w] = "closed" /\ pend[w] = NoChange /\ lock[DATABASE_URL] # w

\* C8 (as claimed; refuted under SpecFault): a wrapped operation that fails with an
\* error other than lock contention was invoked exactly once, with no wait; the
\* error reaches the caller and the session is rolled back when the request ends.
C8_InvokedExactlyOnce ==
  \A w \in Workers :
     FailedOtherwise(w) =>
        /\ run[w].calls = 1 /\ run[w].waits = <<>>
        /\ resp[w].status = "500"
        /\ RolledBack(w)

\* C8 (amended, SpecFault): the invocation that fails with an error other than lock
\* contention is the last one and no wait follows it: the operation was invoked once
\* more than it failed with lock contention (exactly once when it never did), with
\* one wait per lock-contention failure; the error reaches the caller and the
\* session is rolled back when the request ends.
C8_NotRetried ==
  \A w \in Workers :
     FailedOtherwise(w) =>
        /\ run[w].calls = run[w].locked + 1
        /\ Len(run[w].waits) = run[w].locked
        /\ resp[w].status = "500"
        /\ RolledBack(w)
C8_FaultNotRetried ==
  \E w \in Workers :
     FailedOtherwise(w) /\ err[w] = "disk I/O error" /\ run[w].calls = 1 /\ RolledBack(w)

\* C9 (as claimed; refuted under Spec): a mutating request of either adapter ends
\* with the lock-contention error only when its attempts are used up: every
\* lock-contention failure before the third was followed by a wait and a retry.
C9_EveryWriteRetried ==
  \A w \in Workers :
     (Done(w) /\ Mutating(w) /\ err[w] = "database is locked") =>
        /\ run[w].calls = 3
        /\ Len(run[w].waits) = 2

\* C10 (as claimed; refuted under Spec): a request that ends with the
\* lock-contention error is answered 503 by the REST adapter and UNAVAILABLE by the
\* gRPC adapter.
C10_ContentionStatus ==
  \A w \in Workers :
     (Done(w) /\ err[w] = "database is locked") =>
        resp[w].status = (IF req[w].adapter = "rest" THEN "503" ELSE "UNAVAILABLE")


\* C11 (SpecOne): in every reachable state each file holds at most one row per term,
\* whatever the interleaving of the requests; a create that passed the handler's
\* existence check is still refused by the table's unique constraint.
C11_OneRowPerTerm ==
  \A p \in DbPaths : \A t \in Terms : Cardinality(RowsByTerm(files[p], t)) <= 1
C11_ConstraintRefusedCreate ==
  \E w \in Workers :
     /\ Done(w) /\ req[w].op = "create" /\ err[w] = "IntegrityError"
     /\ Cardinality(RowsByTerm(files[DATABASE_URL], req[w].term)) = 1


\* C12 (as claimed; refuted under SpecSolo): a row that enters a file gets an id
\* greater than every id the file ever held (seq), also after the row with the
\* largest id was deleted.
C12_IdsNeverReused ==
  [][\A p \in DbPaths : \A r \in files'[p].rows :
       (r.id \notin {q.id : q \in files[p].rows}) => r.id > files[p].seq]_vars


Success == {"200", "201", "OK"}
NotFound == {"404", "NOT_FOUND"}
Conflict == {"409", "ALREADY_EXISTS"}
\* The step ends the request of w.
Completes(w) ==
  pc[w] \in {"start", "exec", "commit", "exclusive", "refresh", "read"} /\ pc'[w] = "done"
\* The step executes the INSERT of w's create.
Inserts(w) == pend[w].kind # "insert" /\ pend'[w].kind = "insert"

\* C13 (SpecSolo): with one client, a delete that succeeded leaves the term absent; a
\* get answers not-found exactly when the term is absent; a create of an absent term
\* is not refused, inserts one row with the request's term and definition and with
\* created_at the time of the insertion, and answers with that row.
C13_DeleteFinality ==
  [][LET w == Solo
         db == DbOf(req[w].adapter)
         t == req[w].term
     IN
       /\ (Completes(w) /\ req[w].op = "delete" /\ resp'[w].status \in Success)
            => RowsByTerm(files'[db], t) = {}
       /\ (Completes(w) /\ req[w].op = "get")
            => ((resp'[w].status \in NotFound) = (RowsByTerm(files[db], t) = {}))
       /\ (Completes(w) /\ req[w].op = "create")
            => /\ resp'[w].status \in Success \cup Conflict
               /\ resp'[w].status \in Conflict => RowsByTerm(files[db], t) # {}
               /\ resp'[w].status \in Success =>
                    /\ resp'[w].body \in files'[db].rows
                    /\ resp'[w].body.term = t
                    /\ resp'[w].body.definition = req[w].definition
       /\ (pc[w] = "start" /\ req[w].op = "create" /\ RowsByTerm(files[db], t) = {})
            => pc'[w] # "done"
       /\ Inserts(w)
            => \A r \in pend'[w].rows :
                  /\ r.term = t /\ r.definition = req[w].definition
                  /\ r.created_at = now /\ r.updated_at = now'
                  /\ r.id \notin {q.id : q \in files[db].rows}
       /\ (pc[w] = "commit" /\ pc'[w] # "commit" /\ pend[w].kind = "insert")
            => files'[db].rows = files[db].rows \cup pend[w].rows]_vars
\* A term of the seeded store was deleted and created again at a later time.
C13_CreatedAgain ==
  /\ Done(Solo) /\ req[Solo].op = "create" /\ resp[Solo].status \in Success
  /\ resp[Solo].body.id > Cardinality(Terms)
  /\ resp[Solo].body.created_at > 0
  /\ resp[Solo].body.definition # SeedDefinition


\* C14 (as claimed; refuted under SpecSolo): the row a create of an absent term
\* commits has the request's term and definition and created_at equal to
\* updated_at; the Term the create returns has both timestamps equal; a get that
\* finds the term returns the row the store holds.
C14_RoundTrip ==
  [][LET w == Solo
         db == DbOf(req[w].adapter)
         t == req[w].term
     IN
       /\ (pc[w] = "commit" /\ pc'[w] # "commit" /\ pend[w].kind = "insert")
            => \A r \in files'[db].rows \ files[db].rows :
                  /\ r.term = t /\ r.definition = req[w].definition
                  /\ r.created_at = r.updated_at
       /\ (Completes(w) /\ req[w].op = "create" /\ resp'[w].status \in Success)
            => /\ resp'[w].body.term = t
               /\ resp'[w].body.definition = req[w].definition
               /\ resp'[w].body.created_at = resp'[w].body.updated_at
       /\ (Completes(w) /\ req[w].op = "get" /\ resp'[w].status \in Success)
            => resp'[w].body \in RowsByTerm(files[db], t)]_vars


\* The step commits the UPDATE of w's update.
CommitsUpdate(w) == pc[w] = "commit" /\ pc'[w] # "commit" /\ pend[w].kind = "update"

\* C15 (as claimed; refuted under SpecGrpc): the updated_at an update commits is
\* strictly greater than the updated_at the row had before.
C15_UpdatedAtAdvances ==
  [][\A w \in Workers :
       CommitsUpdate(w) =>
         \A n \in pend[w].rows :
            \A r \in RowsById(files[DbOf(req[w].adapter)], n.id) :
               n.updated_at > r.updated_at]_vars


\* C16 (as claimed; refuted under SpecReuse): in every reachable state every row of
\* either file has updated_at >= created_at.
C16_UpdatedNotBeforeCreated ==
  \A p \in DbPaths : \A r \in files[p].rows : r.updated_at >= r.created_at

\* C17 (as claimed; refuted under SpecRest): an update or a delete whose request ends
\* in a state where its term is absent ends with the not-found outcome and leaves
\* the store unchanged.
C17_AbsentIsNotFound ==
  [][\A w \in Workers :
       (/\ Completes(w) /\ req[w].op \in {"update", "delete"}
        /\ RowsByTerm(files[DbOf(req[w].adapter)], req[w].term) = {})
         => /\ resp'[w].status \in NotFound
            /\ files' = files]_vars

\* C18 (as claimed; refuted under SpecOne): a successful update answers with the
\* definition it wrote, whatever the other requests do meanwhile.
C18_UpdateReturnsOwnWrite ==
  \A w \in Workers :
     (Done(w) /\ req[w].op = "update" /\ resp[w].status \in Success)
       => resp[w].body.definition = req[w].definition

\* C19 (as claimed; refuted under SpecReuse): the commit of an update leaves every
\* row of another term as it was, and no step changes the term or the created_at
\* of a row that keeps its id.
C19_UpdateFrame ==
  [][/\ \A w \in Workers :
          CommitsUpdate(w) =>
            \A r \in files[DbOf(req[w].adapter)].rows :
               r.term # req[w].term => r \in files'[DbOf(req[w].adapter)].rows
     /\ \A p \in DbPaths : \A r \in files[p].rows : \A q \in files'[p].rows :
          r.id = q.id => (q.term = r.term /\ q.created_at = r.created_at)]_vars

\* The kind of outcome a status reports.
Kind(status) ==
  CASE status \in Success -> "success"
    [] status \in NotFound -> "not-found"
    [] status \in Conflict -> "conflict"
    [] status \in {"422", "INVALID_ARGUMENT"} -> "validation"
    [] OTHER -> "error"

\* C20 (as claimed; refuted under SpecPair): when both clients have the answer to the
\* same request of the sequence, the two answers report the same kind of outcome
\* and the Terms they carry have the same id, term and definition.
C20_SameOutcome ==
  (Done(RestClient) /\ Done(GrpcClient)) =>
     /\ Kind(resp[RestClient].status) = Kind(resp[GrpcClient].status)
     /\ resp[RestClient].body.id = resp[GrpcClient].body.id
     /\ resp[RestClient].body.term = resp[GrpcClient].body.term
     /\ resp[RestClient].body.definition = resp[GrpcClient].body.definition

\* The step ends a list request of w with a listing.
Lists(w) == pc[w] = "start" /\ req[w].op = "list" /\ pc'[w] = "done"
AcceptedSortFields == {"term", "created_at", "updated_at"}
Direction(order) == IF order = "desc" THEN "desc" ELSE "asc"

\* C21 (as claimed; refuted under SpecList): a GET /terms whose sort_by is not term,
\* created_at or updated_at answers 200 with the rows in an order that
\* ORDER BY created_at admits for the same direction.
C21_FallsBackToCreatedAt ==
  [][\A w \in Workers :
       (Lists(w) /\ req[w].adapter = "rest" /\ req[w].sort_by \notin AcceptedSortFields)
         => /\ resp'[w].status = "200"
            /\ resp'[w].terms \in OrderBy(files[DATABASE_URL].rows, "created_at",
                                          Direction(req[w].order))]_vars

\* The column a listing is sorted by.
SortColumn(r) ==
  IF r.adapter = "rest" /\ r.sort_by \in TermColumns THEN r.sort_by ELSE "created_at"
Range(s) == {s[i] : i \in 1..Len(s)}
TiesByIdAscending(s, sort_by) ==
  \A i, j \in 1..Len(s) :
     (i < j /\ SortKey(s[i], sort_by) = SortKey(s[j], sort_by)) => s[i].id < s[j].id

ListedTwice ==
  /\ opsIssued = 2
  /\ \A w \in {Writer, Reader} :
       /\ Done(w) /\ req[w].op = "list" /\ resp[w].status \in Success
       /\ req[w].sort_by = "created_at" /\ req[w].order = "desc"
  /\ req[Writer].adapter = req[Reader].adapter

EmptyInput(r) ==
  \/ r.op = "create" /\ (r.term = "" \/ r.definition = "")
  \/ r.op = "update" /\ r.definition = ""

\* C24 (as claimed; refuted under SpecBody): a create with an empty term or an empty
\* definition and an update with an empty definition end with 400 (REST) or
\* INVALID_ARGUMENT (gRPC), in the handler's first step (no store function was
\* called, the term present or not), and leave the store unchanged.
C24_EmptyInputRejected ==
  [][\A w \in Workers :
       (pc[w] = "start" /\ pc'[w] # "start" /\ EmptyInput(req[w])) =>
          /\ pc'[w] = "done"
          /\ resp'[w].status = (IF req[w].adapter = "rest" THEN "400" ELSE "INVALID_ARGUMENT")
          /\ run'[w].calls = 0
          /\ files' = files]_vars

\* The step of a get or list request that reads the store and answers.
ReadStep(w) == main_get_terms(w) \/ main_get_term(w) \/ GetTerms(w) \/ GetTerm(w)
Reads(w) == req[w].op \in {"list", "get"}

\* C25 (as claimed; refuted under SpecJournal): in every state, whoever holds a write
\* lock or commits, a get or list request that has not read yet can read at once
\* (its step is enabled), and no get or list request ends with an error.
C25_ReadsNeverWait ==
  \A w \in Workers :
     /\ (pc[w] = "start" /\ Reads(w)) => ENABLED ReadStep(w)
     /\ (Done(w) /\ Reads(w)) => (err[w] = "none" /\ resp[w].status \in Success \cup NotFound)

\* C26 (as claimed; refuted under SpecRefresh): a REST create, update or delete
\* request commits at most one write, whichever statement of an attempt raised the
\* lock error; retry_on_lock invokes the operation again only while no attempt of
\* the request has committed.
C26_OneCommitPerRequest ==
  [][\A w \in Workers :
       /\ (req[w].adapter = "rest" /\ run'[w].calls > run[w].calls /\ run[w].calls > 0)
            => run[w].commits = 0
       /\ req'[w].adapter = "rest" => run'[w].commits <= 1]_vars

\* C27 (as claimed; refuted under SpecGrpc): an RPC that ends with a status other
\* than OK has committed no write: a CreateTerm answered ALREADY_EXISTS inserted no
\* row, an UpdateTerm answered NOT_FOUND changed no row.
C27_NonOkLeavesStore ==
  \A w \in Workers :
     (Done(w) /\ req[w].adapter = "grpc" /\ resp[w].status # "OK") => run[w].commits = 0

\* C28 (as claimed; refuted under SpecDeleteRace): when concurrent delete requests
\* for the same present term have all ended, exactly one of them has the success
\* confirmation (200 / OK) and every other one the not-found outcome (404 /
\* NOT_FOUND), through either adapter.
C28_ExactlyOneDeleteSucceeds ==
  (\A w \in Workers : Done(w) /\ req[w].op = "delete") =>
     /\ Cardinality({w \in Workers : resp[w].status \in Success}) = 1
     /\ \A w \in Workers : resp[w].status \in Success \cup NotFound

\* C29 (as claimed; refuted under SpecGrpc): when an RPC has ended, on whatever path,
\* the connection its store function opened is closed.
C29_ConnectionsClosed ==
  \A w \in Workers :
     (Done(w) /\ req[w].adapter = "grpc") => sess[w] \in {"none", "closed"}

OperationalErrors == {"database is locked", "disk I/O error"}

\* C30 (SpecFault): every attempt of a wrapped operation starts with its own change
\* as the only one pending in the session and with nothing flushed, also after
\* attempts that failed with an OperationalError; a request that such an error ended
\* has no pending or uncommitted change left, and its session is closed.
C30_RolledBackBetweenAttempts ==
  \A w \in Workers :
     /\ (pc[w] = "exec" /\ req[w].adapter = "rest")
          => (run[w].dirty = 1 /\ pend[w] = NoChange /\ lock[DATABASE_URL] # w)
     /\ (Done(w) /\ RestWrite(w) /\ err[w] \in OperationalErrors)
          => (run[w].dirty = 0 /\ RolledBack(w))
\* A create is in its third attempt after two that failed on the write lock.
C30_ThirdAttempt ==
  \E w \in Workers :
     /\ pc[w] = "exec" /\ req[w].adapter = "rest" /\ req[w].op = "create"
     /\ run[w].calls = 3 /\ run[w].locked = 2 /\ run[w].dirty = 1

====
